---------------------------- MODULE Spec2Model ----------------------------
(***************************************************************************)
(* Email scheduler: scheduleEmails (HTTP submit), the BullMQ queue, the    *)
(* worker's job processor, the hourly rate limiter and the schedule        *)
(* aggregator (updateScheduleCounts).                                      *)
(*                                                                         *)
(* Spec is the whole program.  SpecRetry, SpecRate and SpecFair are the    *)
(* same steps started with other budgets: Mailer failures up to a job's    *)
(* attempts, more jobs than the rate limit lets through, and fair          *)
(* scheduling with no error.  SpecRecover adds the process being killed    *)
(* and started again.  SpecRequest and SpecIntake take request bodies as   *)
(* they arrive, validation included, the first with the worker running and *)
(* the second with scheduleEmails alone serving two requests.  SpecLimiter *)
(* is the rate limiter with one caller.  SpecJobStatus is scheduleEmails   *)
(* and updateEmailJobStatus called for rows that exist.  SpecWindow is     *)
(* checkRateLimit on the hour window as the string the code builds, with   *)
(* dates in minutes since 1970-01-01T00:00Z.                               *)
(*                                                                         *)
(* A string that the program inspects (a recipient address) is the         *)
(* sequence of its characters.                                             *)
(*                                                                         *)
(* Time is counted in ticks; HourLen ticks make one UTC hour.  The clock   *)
(* starts at T0, the last tick of the third hour after the epoch, so that  *)
(* every duration of at most one hour is a smaller number than every       *)
(* Date.now().                                                             *)
(***************************************************************************)
EXTENDS Integers, Sequences, FiniteSets, TLC

(* ------------------------------ bounds -------------------------------- *)
\* Requests served over a whole run.
MaxRequests == 1
\* EmailJob rows created over a whole run (all requests together).
MaxJobs == 2
\* Mailer failures over a whole run: as many as a job has attempts, or few.
MaxFailures == 3
FewFailures == 1
\* Redis, Store and enqueue errors over a whole run.
MaxErrors == 1
\* Ticks the clock may advance past T0.
MaxTicks == 1
\* EmailJob rows of the runs that exercise the rate limiter.
RateJobs == 3
\* Times the process is killed and started again over a whole run.
MaxRestarts == 1
\* Requests of the runs in which a client submits again.
Resubmits == 2
\* The highest count a Redis key or RateLimitCounter row starts with.
MaxCount == 3

(* ------------------------- program constants -------------------------- *)
\* queueService.ts:12, process.env.WORKER_CONCURRENCY (default '5').
WORKER_CONCURRENCY == 2
\* queueService.ts:14, process.env.MAX_EMAILS_PER_HOUR (default '200').
MAX_EMAILS_PER_HOUR == 1
\* queueService.ts:27, defaultJobOptions.attempts.
attempts == 3
\* Ticks per hour: getNextHourWindow adds one hour to the window start.
HourLen == 2

T0 == 3 * HourLen - 1
TEnd == T0 + MaxTicks

Owners == {"u1"}
\* Values a request body may carry: startTime, delayMs (ticks), and an
\* hourlyLimit other than MAX_EMAILS_PER_HOUR.
StartTimes == {T0}
Delays == {0, 1}
HourlyLimits == {2}

Max(a, b) == IF a >= b THEN a ELSE b

VARIABLES
    now,            \* Date.now(), in ticks
    nextId,         \* uuidv4(): the next fresh id
    emailSchedule,  \* Store table EmailSchedule: id -> row
    emailJob,       \* Store table EmailJob: id -> row
    queue,          \* BullMQ queue 'emails': job id -> job
    kv,             \* Redis keys rate-limit:<hour>:<sender>: hour -> count
    mirror,         \* Store table RateLimitCounter: hour -> count
    upserts,        \* RateLimitCounter upserts issued and not yet settled
    req,            \* the scheduleEmails request being served
    sends,          \* observer: hour -> successful Mailer calls in that hour
    budget,         \* what the run may still use: requests, rows, failures, errors,
                    \* restarts
    user,           \* Store table User: the ids of its rows
    probe           \* a caller of the rate limiter: its position and the counts read

vars == <<now, nextId, emailSchedule, emailJob, queue, kv, mirror, upserts, req, sends,
          budget, user, probe>>

(* --------------------------- rate limiter ----------------------------- *)
\* getHourWindow: the UTC hour a time lies in (the YYYY-MM-DD-HH bucket).
getHourWindow(t) == t \div HourLen

\* getNextHourWindow: the instant the hour after bucket hw starts.
getNextHourWindow(hw) == (hw + 1) * HourLen

HourIdx == getHourWindow(T0)..getHourWindow(TEnd)

\* checkRateLimit, the count read: the Redis key, else the Store row, else '0'.
currentCount(hw) ==
    IF hw \in DOMAIN kv THEN kv[hw]
    ELSE IF hw \in DOMAIN mirror THEN mirror[hw]
    ELSE 0

\* canSend with <= for <: a count equal to the limit passes.
canSendInclusive(count, limit) == count <= limit

\* checkRateLimit, canSend.
canSend(count, limit) == count < limit

\* The limit the worker hands to checkRateLimit for a job.
rateLimitArg(job) == MAX_EMAILS_PER_HOUR

(* ------------------------------ Store --------------------------------- *)
\* prisma.emailJob.findUnique({ where: { id } }): the ids of the rows found.
findEmailJob(id) == {j \in DOMAIN emailJob : j = id}

\* workerEmailJob looking the row up by the job's campaign and recipient.
workerEmailJobByRecipient(job) ==
    {j \in DOMAIN emailJob : /\ emailJob[j].scheduleId = job.scheduleId
                             /\ emailJob[j].recipient = job.recipient}

\* The row the worker looks up for a queue job: where: { id: job.data.scheduleId }.
workerEmailJob(job) == findEmailJob(job.scheduleId)

\* updateEmailJobStatus on the rows given: the status, and sentTime when the
\* options carry one (withSentTime); an undefined sentTime leaves the field alone.
updateEmailJobStatus(ids, status, withSentTime) ==
    [j \in DOMAIN emailJob |->
        IF j \in ids
        THEN [emailJob[j] EXCEPT !.status = status,
                                 !.sentTime = IF withSentTime THEN {now} ELSE @]
        ELSE emailJob[j]]

\* getEmailJobCountByStatus.
getEmailJobCountByStatus(sid, status) ==
    Cardinality({j \in DOMAIN emailJob :
        emailJob[j].scheduleId = sid /\ emailJob[j].status = status})

\* isCompleted with the comparison turned around.
isCompletedFlipped(sentCount, failedCount, totalCount) ==
    sentCount + failedCount <= totalCount

\* updateScheduleCounts, isCompleted.
isCompleted(sentCount, failedCount, totalCount) ==
    sentCount + failedCount >= totalCount

\* writeScheduleCounts writing totalCount as well, as the sum of the counts read.
writeScheduleCountsAndTotal(sid, sentCount, failedCount) ==
    IF sid \in DOMAIN emailSchedule
    THEN [emailSchedule EXCEPT ![sid] =
            [@ EXCEPT !.sentCount = sentCount,
                      !.failedCount = failedCount,
                      !.totalCount = sentCount + failedCount,
                      !.status = IF isCompleted(sentCount, failedCount,
                                                emailSchedule[sid].totalCount)
                                 THEN "completed" ELSE "in-progress"]]
    ELSE emailSchedule

\* updateScheduleCounts, the write of the counts read and the status.
writeScheduleCounts(sid, sentCount, failedCount) ==
    IF sid \in DOMAIN emailSchedule
    THEN [emailSchedule EXCEPT ![sid] =
            [@ EXCEPT !.sentCount = sentCount,
                      !.failedCount = failedCount,
                      !.status = IF isCompleted(sentCount, failedCount,
                                                emailSchedule[sid].totalCount)
                                 THEN "completed" ELSE "in-progress"]]
    ELSE emailSchedule

(* ------------------------------ Queue --------------------------------- *)
Active == {q \in DOMAIN queue : queue[q].state = "active"}

\* hasCapacity with <= for <: one job more than the concurrency option.
hasCapacityInclusive == Cardinality(Active) <= WORKER_CONCURRENCY

\* The Worker's concurrency option: it fetches a job only while fewer than
\* WORKER_CONCURRENCY of its jobs are being processed.
hasCapacity == Cardinality(Active) < WORKER_CONCURRENCY

\* newQueueJob with no delay: the job is due at once.
newQueueJobNoDelay(sid, rcpt, scheduledTime) ==
    [scheduleId |-> sid, recipient |-> rcpt, scheduledTime |-> scheduledTime,
     due |-> now,
     state |-> "delayed", attemptsMade |-> 0,
     pc |-> "none", hw |-> 0, ok |-> FALSE, sentC |-> 0, failedC |-> 0,
     calls |-> 0, denied |-> FALSE, notBefore |-> 0]

\* A job as queue.add stores it (scheduleEmailJob): the data, scheduledTime with
\* it, and delay = max(0, scheduledTime - now).
newQueueJob(sid, rcpt, scheduledTime) ==
    [scheduleId |-> sid, recipient |-> rcpt, scheduledTime |-> scheduledTime,
     due |-> now + Max(0, scheduledTime - now),
     state |-> "delayed", attemptsMade |-> 0,
     pc |-> "none", hw |-> 0, ok |-> FALSE, sentC |-> 0, failedC |-> 0,
     calls |-> 0, denied |-> FALSE, notBefore |-> 0]

\* moveToDelayed leaving the job failed: a deferred job is dropped.
moveToDelayedDropped(job, timestamp) ==
    [job EXCEPT !.state = "failed", !.due = Max(timestamp, now),
                !.pc = "none", !.hw = 0, !.ok = FALSE, !.sentC = 0, !.failedC = 0]

\* job.moveToDelayed(timestamp): back to 'wait' at that absolute timestamp.
moveToDelayed(job, timestamp) ==
    [job EXCEPT !.state = "delayed", !.due = Max(timestamp, now),
                !.pc = "none", !.hw = 0, !.ok = FALSE, !.sentC = 0, !.failedC = 0]

\* The processor returned: the job is completed.
moveToCompleted(job) ==
    [job EXCEPT !.state = "completed",
                !.pc = "none", !.hw = 0, !.sentC = 0, !.failedC = 0]

\* moveToFailed with <= for <: one retry more than attempts allows.
moveToFailedOnceMore(job) ==
    [job EXCEPT !.attemptsMade = @ + 1,
                !.state = IF job.attemptsMade + 1 <= attempts THEN "delayed" ELSE "failed",
                !.due = now,
                !.pc = "none", !.hw = 0, !.ok = FALSE, !.sentC = 0, !.failedC = 0]

\* The processor threw: retry while attempts are left (backoff 2s, 4s: below
\* one tick), else the job is failed.
moveToFailed(job) ==
    [job EXCEPT !.attemptsMade = @ + 1,
                !.state = IF job.attemptsMade + 1 < attempts THEN "delayed" ELSE "failed",
                !.due = now,
                !.pc = "none", !.hw = 0, !.ok = FALSE, !.sentC = 0, !.failedC = 0]

(* ------------------------------- Init --------------------------------- *)
Idle == [pc |-> "idle", sid |-> 0, recipients |-> << >>, i |-> 0, ms |-> 0,
         createdJobs |-> 0, enqueueFailed |-> 0, status |-> 0]

\* No caller of the rate limiter besides the processor.
NoProbe == [pc |-> "none", hw |-> 0, first |-> 0, second |-> 0]

InitWith(requests, rows, failures, errors) ==
    /\ now = T0
    /\ nextId = 1
    /\ emailSchedule = << >>
    /\ emailJob = << >>
    /\ queue = << >>
    /\ kv = << >>
    /\ mirror = << >>
    /\ upserts = {}
    /\ req = Idle
    /\ sends = [h \in HourIdx |-> 0]
    /\ budget = [requests |-> requests, rows |-> rows,
                 failures |-> failures, errors |-> errors, restarts |-> MaxRestarts]
    /\ user = {}
    /\ probe = NoProbe

Init == InitWith(MaxRequests, MaxJobs, FewFailures, MaxErrors)

(* ------------------------------ clock --------------------------------- *)
Tick ==
    /\ now < TEnd
    /\ now' = now + 1
    /\ UNCHANGED <<nextId, emailSchedule, emailJob, queue, kv, mirror, upserts, req, sends, budget, user, probe>>


(* ------------------------- scheduleEmails ----------------------------- *)
\* A string is the sequence of its characters; Addr(c) is the address c@x.io.
Addr(c) == <<c, "@", "x", ".", "i", "o">>

\* Recipient lists of a request body, already trimmed and matching the email
\* pattern: a, b, a, ... and a, a, a, ...
Alternating(n) == [i \in 1..n |-> IF i % 2 = 1 THEN Addr("a") ELSE Addr("b")]
Repeated(n) == [i \in 1..n |-> Addr("a")]
RecipientLists ==
    UNION {{Alternating(n), Repeated(n)} : n \in 1..Max(MaxJobs, RateJobs)}

\* prisma.emailSchedule.create: status 'scheduled', totalCount = validRecipients.length.
newEmailSchedule(userId, recipients, startTime, delayMs, hourlyLimit) ==
    [userId |-> userId, subject |-> "s", body |-> "b",
     recipients |-> recipients, startTime |-> startTime,
     delayMs |-> delayMs, hourlyLimit |-> hourlyLimit, totalCount |-> Len(recipients),
     sentCount |-> 0, failedCount |-> 0, status |-> "scheduled"]

\* newEmailJob with the status of the schedule row, 'scheduled'.
newEmailJobScheduled(sid, userId, rcpt, scheduledTime) ==
    [scheduleId |-> sid, userId |-> userId, recipient |-> rcpt,
     scheduledTime |-> scheduledTime, status |-> "scheduled",
     sentTime |-> {}, jobId |-> {}]

\* prisma.emailJob.create: status 'pending', no sentTime, no jobId.
newEmailJob(sid, userId, rcpt, scheduledTime) ==
    [scheduleId |-> sid, userId |-> userId, recipient |-> rcpt,
     scheduledTime |-> scheduledTime, status |-> "pending",
     sentTime |-> {}, jobId |-> {}]

\* scheduledTimeOf with i counted from 1.
scheduledTimeOfOneBased(startTime, i, delayMs) == startTime + (i + 1) * delayMs

\* The loop's scheduledTime: startTime + i * delayMs, i counted from 0.
scheduledTimeOf(startTime, i, delayMs) == startTime + i * delayMs

\* String.prototype.trim: the white space at both ends is removed.
RECURSIVE trimStart(_)
trimStart(str) == IF str # << >> /\ Head(str) = " " THEN trimStart(Tail(str)) ELSE str
RECURSIVE trimEnd(_)
trimEnd(str) ==
    IF str # << >> /\ str[Len(str)] = " " THEN trimEnd(SubSeq(str, 1, Len(str) - 1)) ELSE str
trim(str) == trimEnd(trimStart(str))

\* emailRegex.test: /^[^\s@]+@[^\s@]+\.[^\s@]+$/.
emailRegex(str) ==
    \E at, dot \in 1..Len(str) :
        /\ 1 < at /\ at + 1 < dot /\ dot < Len(str)
        /\ str[at] = "@" /\ str[dot] = "."
        /\ \A k \in 1..Len(str) : k # at => str[k] \notin {" ", "@"}

\* A startTime that is absent from the body, and one new Date cannot parse
\* (getTime() is NaN).
NoStartTime == 0
InvalidDate == 0 - 1

\* The recipients that fail the pattern once trimmed.
invalidEmails(recipients) == SelectSeq(recipients, LAMBDA email : ~emailRegex(trim(email)))

\* recipients.map(trim).filter(e => e).
validRecipients(recipients) ==
    SelectSeq([i \in 1..Len(recipients) |-> trim(recipients[i])], LAMBDA e : e # << >>)

\* validate without the check of the parsed date.
validateNoDate(r) ==
    IF r.userId = "" THEN 401
    ELSE IF r.subject = "" \/ r.body = "" \/ r.recipients = << >> THEN 400
    ELSE IF r.startTime = NoStartTime THEN 400
    ELSE IF invalidEmails(r.recipients) # << >> THEN 400
    ELSE 0

\* The checks of scheduleEmails in their order: the status answered, 0 to go on.
\* An absent header or field is the empty string; recipients absent, not an array
\* or empty is the empty sequence.
validate(r) ==
    IF r.userId = "" THEN 401
    ELSE IF r.subject = "" \/ r.body = "" \/ r.recipients = << >> THEN 400
    ELSE IF r.startTime = NoStartTime THEN 400
    ELSE IF r.startTime = InvalidDate THEN 400
    ELSE IF invalidEmails(r.recipients) # << >> THEN 400
    ELSE 0

\* scheduleEmails answers 401 or 400 and returns.
SubmitReject(status) ==
    /\ req.pc \in {"idle", "responded"}
    /\ budget.requests > 0
    /\ budget' = [budget EXCEPT !.requests = @ - 1]
    /\ req' = [Idle EXCEPT !.pc = "responded", !.status = status]
    /\ UNCHANGED <<now, nextId, emailSchedule, emailJob, queue, kv, mirror, upserts, sends,
                   user, probe>>

\* scheduleEmails up to the schedule row: validation passed, the row is created.
\* The rows of the request stay within MaxJobs and its last scheduledTime within
\* the clock's range.
SubmitBegin(userId, recipients, startTime, delayMs, hourlyLimit) ==
    /\ req.pc \in {"idle", "responded"}
    /\ budget.requests > 0
    /\ Len(recipients) <= budget.rows
    /\ scheduledTimeOf(startTime, Len(recipients) - 1, delayMs) <= TEnd
    /\ emailSchedule' = (nextId :> newEmailSchedule(userId, recipients, startTime,
                                                    delayMs, hourlyLimit))
                        @@ emailSchedule
    /\ nextId' = nextId + 1
    /\ req' = [pc |-> "loop", sid |-> nextId, recipients |-> recipients, i |-> 1,
               ms |-> 0, createdJobs |-> 0, enqueueFailed |-> 0, status |-> 0]
    /\ budget' = [budget EXCEPT !.requests = @ - 1, !.rows = @ - Len(recipients)]
    /\ user' = user \cup {userId}
    /\ UNCHANGED <<now, emailJob, queue, kv, mirror, upserts, sends, probe>>

\* One turn of the loop: the EmailJob row, then scheduleEmailJob inside try/catch
\* (enqueueOk: queue.add succeeded), then the row's jobId (updateOk: the update
\* succeeded; its failure is caught with the enqueue's).  ms is Date.now() inside
\* scheduleEmailJob: the same millisecond as the turn before, or a later one.
SubmitStep(enqueueOk, updateOk, ms) ==
    /\ req.pc = "loop"
    /\ req.i <= Len(req.recipients)
    /\ ms \in {req.ms, req.ms + 1}
    /\ ms >= 1
    /\ (enqueueOk /\ updateOk) \/ budget.errors > 0
    /\ budget' = IF enqueueOk /\ updateOk THEN budget
                 ELSE [budget EXCEPT !.errors = @ - 1]
    /\ LET sid == req.sid
           sch == emailSchedule[sid]
           rcpt == req.recipients[req.i]
           scheduledTime == scheduledTimeOf(sch.startTime, req.i - 1, sch.delayMs)
           row == newEmailJob(sid, sch.userId, rcpt, scheduledTime)
           jobId == <<sid, rcpt, ms>>
       IN  /\ nextId' = nextId + 1
           /\ IF enqueueOk
              THEN /\ queue' = IF jobId \in DOMAIN queue THEN queue
                               ELSE (jobId :> newQueueJob(sid, rcpt, scheduledTime)) @@ queue
                   /\ emailJob' = (nextId :> IF updateOk THEN [row EXCEPT !.jobId = {jobId}]
                                             ELSE row) @@ emailJob
                   /\ req' = [req EXCEPT !.i = @ + 1, !.ms = ms, !.createdJobs = @ + 1]
              ELSE /\ updateOk
                   /\ queue' = queue
                   /\ emailJob' = (nextId :> row) @@ emailJob
                   /\ req' = [req EXCEPT !.i = @ + 1, !.ms = ms, !.enqueueFailed = @ + 1]
    /\ UNCHANGED <<now, emailSchedule, kv, mirror, upserts, sends, user, probe>>

\* The loop is over: res.status(201).
SubmitRespond ==
    /\ req.pc = "loop"
    /\ req.i > Len(req.recipients)
    /\ req' = [req EXCEPT !.pc = "responded", !.status = 201, !.ms = 0]
    /\ UNCHANGED <<now, nextId, emailSchedule, emailJob, queue, kv, mirror, upserts, sends,
                   budget, user, probe>>

\* prisma.emailJob.create threw: the outer catch answers 500.
SubmitStoreError ==
    /\ req.pc = "loop"
    /\ req.i <= Len(req.recipients)
    /\ budget.errors > 0
    /\ budget' = [budget EXCEPT !.errors = @ - 1]
    /\ req' = [req EXCEPT !.pc = "responded", !.status = 500, !.ms = 0]
    /\ UNCHANGED <<now, nextId, emailSchedule, emailJob, queue, kv, mirror, upserts, sends, user, probe>>

(* --------------------------- job processor ---------------------------- *)
\* The worker takes a job that is due: at most WORKER_CONCURRENCY are active.
\* checkRateLimit starts and reads the hour window.
Lease(q) ==
    /\ queue[q].state = "delayed"
    /\ queue[q].due <= now
    /\ hasCapacity
    /\ queue' = [queue EXCEPT ![q] = [@ EXCEPT !.state = "active", !.pc = "check",
                                               !.hw = getHourWindow(now),
                                               !.denied = FALSE]]
    /\ UNCHANGED <<now, nextId, emailSchedule, emailJob, kv, mirror, upserts, req, sends,
                   budget, user, probe>>

\* checkRateLimit returns; if it denies and the next window lies ahead, the job is
\* moved to delayed with delayMs as the timestamp and the processor returns.
RateCheckWith(q, limit) ==
    /\ queue[q].pc = "check"
    /\ LET job == queue[q]
           delayMs == getNextHourWindow(job.hw) - now
       IN  queue' = [queue EXCEPT ![q] =
              IF canSend(currentCount(job.hw), limit)
              THEN [job EXCEPT !.pc = "send"]
              ELSE IF delayMs > 0
                   THEN [moveToDelayed(job, delayMs) EXCEPT
                            !.denied = TRUE,
                            !.notBefore = getNextHourWindow(job.hw)]
                   ELSE [job EXCEPT !.pc = "send", !.denied = TRUE,
                                    !.notBefore = getNextHourWindow(job.hw)]]
    /\ UNCHANGED <<now, nextId, emailSchedule, emailJob, kv, mirror, upserts, req, sends,
                   budget, user, probe>>

\* The processor's rate check, with the limit it hands to checkRateLimit.
RateCheck(q) == RateCheckWith(q, rateLimitArg(queue[q]))

\* sendEmail: the Mailer call; ok is result.success.  On failure the failure
\* branch follows: findUnique, and for a row found updateEmailJobStatus('failed').
Send(q, ok) ==
    /\ queue[q].pc = "send"
    /\ ok \/ budget.failures > 0
    /\ budget' = IF ok THEN budget ELSE [budget EXCEPT !.failures = @ - 1]
    /\ queue' = [queue EXCEPT ![q] = [@ EXCEPT !.pc = IF ok THEN "incr" ELSE "countSent",
                                               !.ok = ok, !.calls = @ + 1]]
    /\ sends' = IF ok THEN [sends EXCEPT ![getHourWindow(now)] = @ + 1] ELSE sends
    /\ emailJob' = IF ok THEN emailJob
                   ELSE updateEmailJobStatus(workerEmailJob(queue[q]), "failed", FALSE)
    /\ UNCHANGED <<now, nextId, emailSchedule, kv, mirror, upserts, req, user, probe>>

\* incrementRateLimit: INCR on the key of the hour it is now, and the Store upsert
\* is issued without being awaited.  Then the success branch goes on: findUnique,
\* and for a row found updateEmailJobStatus('sent', sentTime).
IncrementRateLimit(q) ==
    /\ queue[q].pc = "incr"
    /\ LET hw == getHourWindow(now)
           newCount == IF hw \in DOMAIN kv THEN kv[hw] + 1 ELSE 1
       IN  /\ kv' = (hw :> newCount) @@ kv
           /\ upserts' = upserts \cup {[hour |-> hw, count |-> newCount]}
    /\ emailJob' = updateEmailJobStatus(workerEmailJob(queue[q]), "sent", TRUE)
    /\ queue' = [queue EXCEPT ![q] = [@ EXCEPT !.pc = "countSent"]]
    /\ UNCHANGED <<now, nextId, emailSchedule, mirror, req, sends, budget, user, probe>>

\* The upsert of RateLimitCounter settles.
UpsertDone(u) ==
    /\ u \in upserts
    /\ mirror' = (u.hour :> u.count) @@ mirror
    /\ upserts' = upserts \ {u}
    /\ UNCHANGED <<now, nextId, emailSchedule, emailJob, queue, kv, req, sends, budget, user, probe>>

\* The upsert fails: .catch logs it.
UpsertError(u) ==
    /\ u \in upserts
    /\ budget.errors > 0
    /\ budget' = [budget EXCEPT !.errors = @ - 1]
    /\ upserts' = upserts \ {u}
    /\ UNCHANGED <<now, nextId, emailSchedule, emailJob, queue, kv, mirror, req, sends, user, probe>>

\* updateScheduleCounts: the count of 'sent' rows.
CountSent(q) ==
    /\ queue[q].pc = "countSent"
    /\ queue' = [queue EXCEPT ![q] =
                    [@ EXCEPT !.pc = "countFailed",
                              !.sentC = getEmailJobCountByStatus(queue[q].scheduleId, "sent")]]
    /\ UNCHANGED <<now, nextId, emailSchedule, emailJob, kv, mirror, upserts, req, sends,
                   budget, user, probe>>

\* updateScheduleCounts: the count of 'failed' rows.
CountFailed(q) ==
    /\ queue[q].pc = "countFailed"
    /\ queue' = [queue EXCEPT ![q] =
                    [@ EXCEPT !.pc = "write",
                              !.failedC = getEmailJobCountByStatus(queue[q].scheduleId,
                                                                   "failed")]]
    /\ UNCHANGED <<now, nextId, emailSchedule, emailJob, kv, mirror, upserts, req, sends,
                   budget, user, probe>>

\* updateScheduleCounts: the schedule row is written.  After a successful send the
\* processor returns.  After a failed one it throws result.error into its own
\* catch: findUnique, for a row found updateEmailJobStatus('failed'), rethrow.
WriteCounts(q) ==
    /\ queue[q].pc = "write"
    /\ emailSchedule' = writeScheduleCounts(queue[q].scheduleId, queue[q].sentC,
                                            queue[q].failedC)
    /\ emailJob' = IF queue[q].ok THEN emailJob
                   ELSE updateEmailJobStatus(workerEmailJob(queue[q]), "failed", FALSE)
    /\ queue' = [queue EXCEPT ![q] = IF @.ok THEN moveToCompleted(@) ELSE moveToFailed(@)]
    /\ UNCHANGED <<now, nextId, kv, mirror, upserts, req, sends, budget, user, probe>>

\* A Redis or Store call of the processor throws (checkRateLimit, incrementRateLimit,
\* updateScheduleCounts): catch marks the row found 'failed' and rethrows.
Throw(q) ==
    /\ queue[q].pc \in {"check", "incr", "countSent", "countFailed", "write"}
    /\ budget.errors > 0
    /\ budget' = [budget EXCEPT !.errors = @ - 1]
    /\ emailJob' = updateEmailJobStatus(workerEmailJob(queue[q]), "failed", FALSE)
    /\ queue' = [queue EXCEPT ![q] = moveToFailed(@)]
    /\ UNCHANGED <<now, nextId, emailSchedule, kv, mirror, upserts, req, sends, user, probe>>

(* --------------------- updateEmailJobStatus, called -------------------- *)
\* updateEmailJobStatus(id, status, options) for the id of a row that exists, as
\* the processor calls it for a row it has found: 'sent' with a sentTime, 'failed'
\* with an errorMessage.  The update has no condition on the row's status.
ReportStatus(j, status) ==
    /\ j \in DOMAIN emailJob
    /\ emailJob' = updateEmailJobStatus({j}, status, status = "sent")
    /\ UNCHANGED <<now, nextId, emailSchedule, queue, kv, mirror, upserts, req, sends,
                   budget, user, probe>>

(* ---------------------- a caller of the rate limiter ------------------- *)
\* One sender, one hour, nobody else incrementing: checkRateLimit,
\* incrementRateLimit, checkRateLimit.  The Redis key may be there or not (Redis
\* is volatile and resetRateLimit deletes keys only), the Store row may be there
\* or not; neither is ever written with a count of 0.
InitLimiter ==
    /\ now = T0
    /\ nextId = 1
    /\ emailSchedule = << >>
    /\ emailJob = << >>
    /\ queue = << >>
    /\ kv \in {<< >>} \cup {getHourWindow(T0) :> c : c \in 1..MaxCount}
    /\ mirror \in {<< >>} \cup {getHourWindow(T0) :> c : c \in 1..MaxCount}
    /\ upserts = {}
    /\ req = Idle
    /\ sends = [h \in HourIdx |-> 0]
    /\ budget = [requests |-> 0, rows |-> 0, failures |-> 0, errors |-> MaxErrors,
                 restarts |-> 0]
    /\ user = {}
    /\ probe = [NoProbe EXCEPT !.pc = "first"]

\* checkRateLimit: currentCount of the hour it is now.
ProbeCheck ==
    /\ probe.pc \in {"first", "second"}
    /\ probe' = IF probe.pc = "first"
                THEN [probe EXCEPT !.pc = "increment", !.hw = getHourWindow(now),
                                   !.first = currentCount(getHourWindow(now))]
                ELSE [probe EXCEPT !.pc = "done",
                                   !.second = currentCount(getHourWindow(now))]
    /\ UNCHANGED <<now, nextId, emailSchedule, emailJob, queue, kv, mirror, upserts, req,
                   sends, budget, user>>

\* incrementRateLimit: INCR, and the Store upsert issued without being awaited.
ProbeIncrement ==
    /\ probe.pc = "increment"
    /\ LET hw == getHourWindow(now)
           newCount == IF hw \in DOMAIN kv THEN kv[hw] + 1 ELSE 1
       IN  /\ kv' = (hw :> newCount) @@ kv
           /\ upserts' = upserts \cup {[hour |-> hw, count |-> newCount]}
    /\ probe' = [probe EXCEPT !.pc = "second"]
    /\ UNCHANGED <<now, nextId, emailSchedule, emailJob, queue, mirror, req, sends, budget,
                   user>>

(* ------------------------ the hour window in full --------------------- *)
\* The specifications above take the hour window as the number of the hour.  Here
\* it is the string the code builds, 'YYYY-MM-DD-HH', and a Date is its time value
\* in minutes since 1970-01-01T00:00Z; strings are sequences of characters.
MinutesPerHour == 60
HoursPerDay == 24
Years == 1970..2101

isLeapYear(y) == (y % 4 = 0 /\ y % 100 # 0) \/ y % 400 = 0
daysInYear(y) == IF isLeapYear(y) THEN 366 ELSE 365
daysInMonth(y, m) ==
    IF m = 2 THEN (IF isLeapYear(y) THEN 29 ELSE 28)
    ELSE IF m \in {4, 6, 9, 11} THEN 30 ELSE 31
leapDaysThrough(y) == y \div 4 - y \div 100 + y \div 400
daysBeforeYear(y) == 365 * (y - 1970) + leapDaysThrough(y - 1) - leapDaysThrough(1969)
RECURSIVE daysBeforeMonth(_, _)
daysBeforeMonth(y, m) ==
    IF m = 1 THEN 0 ELSE daysBeforeMonth(y, m - 1) + daysInMonth(y, m - 1)

\* Date.UTC(year, monthIndex, day, hour, 0, 0): monthIndex counts from 0, and one
\* past 11 runs into the next year.
DateUTC(year, monthIndex, day, hour) ==
    LET y == year + monthIndex \div 12
        m == (monthIndex % 12) + 1
    IN  ((daysBeforeYear(y) + daysBeforeMonth(y, m) + day - 1) * HoursPerDay + hour)
            * MinutesPerHour

\* The UTC fields of a Date.
dayOf(date) == date \div (HoursPerDay * MinutesPerHour)
getUTCFullYear(date) ==
    CHOOSE y \in Years : daysBeforeYear(y) <= dayOf(date) /\ dayOf(date) < daysBeforeYear(y + 1)
getUTCMonth(date) ==
    LET y == getUTCFullYear(date)
        d == dayOf(date) - daysBeforeYear(y)
    IN  (CHOOSE m \in 1..12 : /\ daysBeforeMonth(y, m) <= d
                              /\ d < daysBeforeMonth(y, m) + daysInMonth(y, m)) - 1
getUTCDate(date) ==
    LET y == getUTCFullYear(date)
    IN  dayOf(date) - daysBeforeYear(y) - daysBeforeMonth(y, getUTCMonth(date) + 1) + 1
getUTCHours(date) == (date \div MinutesPerHour) % HoursPerDay

\* date.setUTCHours(hours): the hour of the day replaced, hours past 23 running
\* into the next day.
setUTCHours(date, hours) == date + (hours - getUTCHours(date)) * MinutesPerHour

\* String(n) and padStart.
Digits == <<"0", "1", "2", "3", "4", "5", "6", "7", "8", "9">>
RECURSIVE toString(_)
toString(n) ==
    IF n < 10 THEN <<Digits[n + 1]>> ELSE toString(n \div 10) \o <<Digits[(n % 10) + 1]>>
RECURSIVE padStart(_, _, _)
padStart(str, targetLength, padString) ==
    IF Len(str) >= targetLength THEN str
    ELSE padStart(<<padString>> \o str, targetLength, padString)

\* str.split(separator) and Number(str) on a string of digits.
RECURSIVE split(_, _)
split(str, separator) ==
    IF \A i \in 1..Len(str) : str[i] # separator THEN <<str>>
    ELSE LET i == CHOOSE k \in 1..Len(str) :
                      str[k] = separator /\ \A l \in 1..(k - 1) : str[l] # separator
         IN  <<SubSeq(str, 1, i - 1)>> \o split(SubSeq(str, i + 1, Len(str)), separator)
RECURSIVE Number(_)
Number(str) ==
    IF str = << >> THEN 0
    ELSE Number(SubSeq(str, 1, Len(str) - 1)) * 10
            + (CHOOSE d \in 0..9 : Digits[d + 1] = str[Len(str)])

\* getHourWindow(date): `${year}-${month}-${day}-${hour}`, two digits each but
\* the year.
getHourWindowString(date) ==
    toString(getUTCFullYear(date)) \o <<"-">>
        \o padStart(toString(getUTCMonth(date) + 1), 2, "0") \o <<"-">>
        \o padStart(toString(getUTCDate(date)), 2, "0") \o <<"-">>
        \o padStart(toString(getUTCHours(date)), 2, "0")

\* getNextHourWindowDate with the month handed to Date.UTC as it is written.
getNextHourWindowDateMonthAsWritten(hourWindow) ==
    LET parts == split(hourWindow, "-")
        date == DateUTC(Number(parts[1]), Number(parts[2]), Number(parts[3]),
                        Number(parts[4]))
    IN  setUTCHours(date, getUTCHours(date) + 1)

\* getNextHourWindow(hourWindow): the string split and parsed, Date.UTC of the
\* parts, one hour added.
getNextHourWindowDate(hourWindow) ==
    LET parts == split(hourWindow, "-")
        date == DateUTC(Number(parts[1]), Number(parts[2]) - 1, Number(parts[3]),
                        Number(parts[4]))
    IN  setUTCHours(date, getUTCHours(date) + 1)

\* checkRateLimit(sender, limit) at the instant now: the Redis key of the hour
\* window, else the RateLimitCounter row, else '0'.
checkRateLimit(limit) ==
    LET hourWindow == getHourWindowString(now)
        count == IF hourWindow \in DOMAIN kv THEN kv[hourWindow]
                 ELSE IF hourWindow \in DOMAIN mirror THEN mirror[hourWindow]
                 ELSE 0
    IN  [canSend |-> canSend(count, limit), currentCount |-> count, limit |-> limit,
         nextWindowTime |-> getNextHourWindowDate(hourWindow)]

\* Hours that end a day, a month of 31, 30, 29 and 28 days, a year, a leap year
\* and a century, and hours that end none of these.
HourStarts ==
    {DateUTC(2024, 4, 17, 9), DateUTC(2024, 4, 17, 23), DateUTC(2024, 0, 31, 23),
     DateUTC(2024, 3, 30, 23), DateUTC(2024, 1, 28, 23), DateUTC(2024, 1, 29, 23),
     DateUTC(2023, 1, 28, 23), DateUTC(2023, 11, 31, 23), DateUTC(2024, 11, 31, 23),
     DateUTC(2099, 11, 31, 23), DateUTC(2100, 1, 28, 23), DateUTC(2025, 0, 1, 0),
     DateUTC(2024, 9, 9, 9), DateUTC(2024, 10, 10, 10)}
Instants == {h + k : h \in HourStarts, k \in {0, 1, MinutesPerHour - 1}}
Limits == {MAX_EMAILS_PER_HOUR, MAX_EMAILS_PER_HOUR + 1}

\* The counters an instant can find: none, one of its own hour (written at its
\* start or just now) or one of the hour before.
CountersAt(date) ==
    {<< >>} \cup {getHourWindowString(t) :> c :
                     t \in {date - MinutesPerHour, date - (date % MinutesPerHour), date},
                     c \in 1..MaxCount}

InitWindow ==
    /\ now \in Instants
    /\ nextId = 1
    /\ emailSchedule = << >>
    /\ emailJob = << >>
    /\ queue = << >>
    /\ kv \in CountersAt(now)
    /\ mirror \in CountersAt(now)
    /\ upserts = {}
    /\ req = Idle
    /\ sends = [h \in HourIdx |-> 0]
    /\ budget = [requests |-> 0, rows |-> 0, failures |-> 0, errors |-> 0, restarts |-> 0]
    /\ user = {}
    /\ probe = [pc |-> "first", result |-> << >>]

\* checkRateLimit is called and returns.
WindowCheck(limit) ==
    /\ probe.pc = "first"
    /\ probe' = [pc |-> "checked", result |-> checkRateLimit(limit)]
    /\ UNCHANGED <<now, nextId, emailSchedule, emailJob, queue, kv, mirror, upserts, req,
                   sends, budget, user>>

(* ------------------------- the Store unavailable ---------------------- *)
\* A campaign has been accepted and its jobs are in the queue; from here on every
\* prisma call rejects.  Redis and the Mailer work.  The hour's Redis key is
\* absent, or holds the increments of sends made earlier in the hour, and
\* MAX_EMAILS_PER_HOUR (read from the environment) lies above them.
OutageLimit == MAX_EMAILS_PER_HOUR + MaxCount

InitOutage ==
    \E recipients \in {l \in RecipientLists : Len(l) <= MaxJobs}, delayMs \in Delays :
        LET n == Len(recipients)
            sid == 1
            st(i) == scheduledTimeOf(T0, i - 1, delayMs)
        IN  /\ now = T0
            /\ nextId = n + 2
            /\ emailSchedule = (sid :> newEmailSchedule("u1", recipients, T0, delayMs, 2))
            /\ emailJob = [j \in 2..(n + 1) |->
                              [newEmailJob(sid, "u1", recipients[j - 1], st(j - 1))
                                  EXCEPT !.jobId = {<<sid, recipients[j - 1], j - 1>>}]]
            /\ queue = [k \in {<<sid, recipients[i], i>> : i \in 1..n} |->
                           newQueueJob(sid, k[2], st(k[3]))]
            /\ kv \in {<< >>} \cup {getHourWindow(T0) :> c : c \in 1..MaxCount}
            /\ mirror = kv
            /\ upserts = {}
            /\ req = [Idle EXCEPT !.pc = "responded", !.sid = sid, !.recipients = recipients,
                                  !.i = n + 1, !.createdJobs = n, !.status = 201]
            /\ sends = [h \in HourIdx |-> 0]
            /\ budget = [requests |-> 0, rows |-> 0, failures |-> FewFailures,
                         errors |-> MaxJobs * attempts + MaxJobs, restarts |-> 0]
            /\ user = {"u1"}
            /\ probe = NoProbe

\* checkRateLimit with the Store unavailable: the Redis key answers if it is
\* there; if not, rateLimitCounter.findUnique rejects, and so does the findUnique
\* of the processor's catch: the job has failed an attempt.
OutageCheck(q) ==
    IF queue[q].hw \in DOMAIN kv THEN RateCheckWith(q, OutageLimit)
    ELSE queue[q].pc = "check" /\ Throw(q)

\* The findUnique after the Mailer call rejects, in the success branch or in the
\* failure branch, and again in the catch.
OutageThrow(q) == queue[q].pc = "countSent" /\ Throw(q)

NextOutage ==
    \/ Tick
    \/ \E q \in DOMAIN queue : Lease(q)
    \/ \E q \in DOMAIN queue : OutageCheck(q)
    \/ \E q \in DOMAIN queue, ok \in BOOLEAN : Send(q, ok)
    \/ \E q \in DOMAIN queue : IncrementRateLimit(q)
    \/ \E q \in DOMAIN queue : OutageThrow(q)
    \/ \E u \in upserts : UpsertError(u)

SpecOutage == InitOutage /\ [][NextOutage]_vars

(* ------------------------------- reads -------------------------------- *)
\* The x-user-id headers of the readers, and the header absent.
Readers == {"u1", "u2"}

\* getScheduledEmails: 401 without the header, else the schedules found with
\* where: { userId }, formatted.
getScheduledEmails(userId) ==
    IF userId = "" THEN [status |-> 401, body |-> {}]
    ELSE [status |-> 200,
          body |-> {[id |-> sid, subject |-> emailSchedule[sid].subject,
                     totalCount |-> emailSchedule[sid].totalCount,
                     sentCount |-> emailSchedule[sid].sentCount,
                     failedCount |-> emailSchedule[sid].failedCount,
                     status |-> emailSchedule[sid].status,
                     startTime |-> emailSchedule[sid].startTime] :
                    sid \in {s \in DOMAIN emailSchedule : emailSchedule[s].userId = userId}}]

\* getSentEmails: 401 without the header, else the rows found with
\* where: { userId, status: { in: ['sent', 'failed'] } }, formatted.
getSentEmails(userId) ==
    IF userId = "" THEN [status |-> 401, body |-> {}]
    ELSE [status |-> 200,
          body |-> {[id |-> j, recipient |-> emailJob[j].recipient,
                     sentTime |-> emailJob[j].sentTime, status |-> emailJob[j].status] :
                    j \in {r \in DOMAIN emailJob :
                              /\ emailJob[r].userId = userId
                              /\ emailJob[r].status \in {"sent", "failed"}}}]

\* The body of getScheduleDetails for a schedule found: the schedule and the rows
\* of include: { emailJobs }.
formattedSchedule(sid) ==
    [id |-> sid, subject |-> emailSchedule[sid].subject, body |-> emailSchedule[sid].body,
     startTime |-> emailSchedule[sid].startTime, delayMs |-> emailSchedule[sid].delayMs,
     hourlyLimit |-> emailSchedule[sid].hourlyLimit, status |-> emailSchedule[sid].status,
     totalCount |-> emailSchedule[sid].totalCount, sentCount |-> emailSchedule[sid].sentCount,
     failedCount |-> emailSchedule[sid].failedCount,
     emails |-> {[id |-> j, recipient |-> emailJob[j].recipient,
                  status |-> emailJob[j].status,
                  scheduledTime |-> emailJob[j].scheduledTime,
                  sentTime |-> emailJob[j].sentTime] :
                 j \in {r \in DOMAIN emailJob : emailJob[r].scheduleId = sid}}]

\* getScheduleDetails with findFirst({ where: { id: scheduleId } }).
getScheduleDetailsOfAnyone(scheduleId, userId) ==
    IF userId = "" THEN [status |-> 401, body |-> {}]
    ELSE IF scheduleId \in DOMAIN emailSchedule
         THEN [status |-> 200, body |-> {formattedSchedule(scheduleId)}]
         ELSE [status |-> 404, body |-> {}]

\* getScheduleDetails: 401 without the header, 404 when
\* findFirst({ where: { id: scheduleId, userId } }) finds nothing.
getScheduleDetails(scheduleId, userId) ==
    IF userId = "" THEN [status |-> 401, body |-> {}]
    ELSE IF scheduleId \in DOMAIN emailSchedule /\ emailSchedule[scheduleId].userId = userId
         THEN [status |-> 200, body |-> {formattedSchedule(scheduleId)}]
         ELSE [status |-> 404, body |-> {}]

\* A GET request is answered; probe keeps the request and the response.
ReadScheduled(userId) ==
    /\ probe' = [pc |-> "scheduled", userId |-> userId, scheduleId |-> 0,
                 res |-> getScheduledEmails(userId)]
    /\ UNCHANGED <<now, nextId, emailSchedule, emailJob, queue, kv, mirror, upserts, req,
                   sends, budget, user>>

ReadSent(userId) ==
    /\ probe' = [pc |-> "sent", userId |-> userId, scheduleId |-> 0,
                 res |-> getSentEmails(userId)]
    /\ UNCHANGED <<now, nextId, emailSchedule, emailJob, queue, kv, mirror, upserts, req,
                   sends, budget, user>>

ReadDetails(scheduleId, userId) ==
    /\ probe' = [pc |-> "details", userId |-> userId, scheduleId |-> scheduleId,
                 res |-> getScheduleDetails(scheduleId, userId)]
    /\ UNCHANGED <<now, nextId, emailSchedule, emailJob, queue, kv, mirror, upserts, req,
                   sends, budget, user>>

(* ------------------------------ start --------------------------------- *)
\* A job whose worker is gone: its lock runs out and it is back in 'wait'.
moveStalledToWait(job) ==
    [job EXCEPT !.state = "delayed", !.due = now,
                !.pc = "none", !.hw = 0, !.ok = FALSE, !.sentC = 0, !.failedC = 0]

\* The process is killed and started again.  The request being served is gone
\* unanswered and the jobs the worker held are stalled.  start connects the
\* Store, Redis, the queue and the worker and listens: it reads no EmailJob row
\* and adds no job to the queue.
Restart ==
    /\ budget.restarts > 0
    /\ budget' = [budget EXCEPT !.restarts = @ - 1]
    /\ req' = IF req.pc = "loop" THEN [req EXCEPT !.pc = "responded", !.ms = 0] ELSE req
    /\ queue' = [q \in DOMAIN queue |->
                    IF queue[q].state = "active" THEN moveStalledToWait(queue[q])
                    ELSE queue[q]]
    /\ UNCHANGED <<now, nextId, emailSchedule, emailJob, kv, mirror, upserts, sends, user,
                   probe>>

(* ------------------------- specifications ----------------------------- *)
\* Request bodies as they arrive: headers and fields absent, dates that do not
\* parse or lie in the past or ahead, addresses padded, in upper case or broken.
RawStartTimes == {T0 - 1, T0, T0 + 1}
RawRecipientLists ==
    {<<Addr("a")>>, <<Addr("a"), Addr("b")>>, <<Addr("a"), Addr("a")>>,
     <<Addr("A"), Addr("a")>>, <<<<" ">> \o Addr("a") \o <<" ">>, Addr("a")>>}
BrokenRecipientLists ==
    {<< >>, <<Addr("a"), <<"b", "@", "x">>>>, <<<<"a", " ", "b", "@", "x", ".", "i", "o">>>>,
     <<<<"@", "x", ".", "i", "o">>>>}
WellFormed ==
    [userId : Owners, subject : {"s"}, body : {"b"},
     recipients : RawRecipientLists, startTime : RawStartTimes,
     delayMs : Delays, hourlyLimit : HourlyLimits]
\* One well-formed body with one thing wrong, or with the header absent as well.
Malformed ==
    LET ok == [userId |-> "u1", subject |-> "s", body |-> "b",
               recipients |-> <<Addr("a"), Addr("b")>>, startTime |-> T0,
               delayMs |-> 0, hourlyLimit |-> 2]
        one == {[ok EXCEPT !.subject = ""], [ok EXCEPT !.body = ""],
                [ok EXCEPT !.startTime = NoStartTime],
                [ok EXCEPT !.startTime = InvalidDate]}
               \cup {[ok EXCEPT !.recipients = l] : l \in BrokenRecipientLists}
    IN  one \cup {[b EXCEPT !.userId = ""] : b \in one \cup {ok}}
Requests == WellFormed \cup Malformed

\* scheduleEmails on a request as it arrives: rejected, or on to the schedule row.
SubmitRequest(r) ==
    /\ req.pc \in {"idle", "responded"}
    /\ budget.requests > 0
    /\ IF validate(r) # 0
       THEN SubmitReject(validate(r))
       ELSE SubmitBegin(r.userId, validRecipients(r.recipients), r.startTime, r.delayMs,
                        r.hourlyLimit)

Submit ==
    \E userId \in Owners, recipients \in RecipientLists, startTime \in StartTimes,
       delayMs \in Delays, hourlyLimit \in HourlyLimits :
        SubmitBegin(userId, recipients, startTime, delayMs, hourlyLimit)

Process(q) ==
    \/ Lease(q)
    \/ RateCheck(q)
    \/ \E ok \in BOOLEAN : Send(q, ok)
    \/ IncrementRateLimit(q)
    \/ CountSent(q)
    \/ CountFailed(q)
    \/ WriteCounts(q)

\* Every step with no Redis, Store or enqueue error; the Mailer may fail.
NextOk ==
    \/ Tick
    \/ Submit
    \/ \E ms \in {req.ms, req.ms + 1} : SubmitStep(TRUE, TRUE, ms)
    \/ SubmitRespond
    \/ \E q \in DOMAIN queue : Process(q)

\* The errors of a request: enqueue and jobId update failures, Store errors.
NextSubmitError ==
    \/ \E ms \in {req.ms, req.ms + 1} : SubmitStep(FALSE, TRUE, ms)
    \/ \E ms \in {req.ms, req.ms + 1} : SubmitStep(TRUE, FALSE, ms)
    \/ SubmitStoreError

\* The errors of the processor: Redis and Store errors.
NextWorkerError == \E q \in DOMAIN queue : Throw(q)

\* The RateLimitCounter upserts settle.  The row is read only for an hour whose
\* Redis key is absent, and every hour with an upsert has its key.
NextMirror ==
    \/ \E u \in upserts : UpsertDone(u)
    \/ \E u \in upserts : UpsertError(u)

Next == NextOk \/ NextSubmitError \/ NextWorkerError \/ NextMirror

\* The whole program.
Spec == Init /\ [][Next]_vars

\* Requests without errors, the worker with its errors and with as many Mailer
\* failures as a job has attempts.
NextRetry == NextOk \/ NextWorkerError
SpecRetry == InitWith(MaxRequests, MaxJobs, MaxFailures, MaxErrors) /\ [][NextRetry]_vars

\* No error, and more jobs than MAX_EMAILS_PER_HOUR + WORKER_CONCURRENCY - 1.
SpecRate == InitWith(MaxRequests, RateJobs, FewFailures, 0) /\ [][NextOk]_vars

\* Fair scheduling with no error: the clock advances, and the worker goes on
\* taking jobs that are due and running the processor on the jobs it holds.
\* Every job is processed in finitely many steps unless it is deferred over and
\* over, so nothing fairer is needed.
Work == \E q \in DOMAIN queue : Process(q)
Fairness == WF_vars(Tick) /\ WF_vars(Work)

SpecFair == InitWith(MaxRequests, MaxJobs, FewFailures, 0) /\ [][NextOk]_vars /\ Fairness

\* Fair scheduling with the errors of a request, and the process killed and
\* started again at any moment.
NextRecover == NextOk \/ NextSubmitError \/ Restart
SpecRecover ==
    InitWith(MaxRequests, MaxJobs, FewFailures, MaxErrors) /\ [][NextRecover]_vars /\ Fairness

\* Requests as they arrive, no error, the worker running.
NextRequest ==
    \/ Tick
    \/ \E r \in Requests : SubmitRequest(r)
    \/ \E ms \in {req.ms, req.ms + 1} : SubmitStep(TRUE, TRUE, ms)
    \/ SubmitRespond
    \/ \E q \in DOMAIN queue : Process(q)
SpecRequest == InitWith(MaxRequests, MaxJobs, FewFailures, 0) /\ [][NextRequest]_vars

\* scheduleEmails alone, with its errors, serving one request after another.
NextIntake ==
    \/ Tick
    \/ \E r \in Requests : SubmitRequest(r)
    \/ \E ms \in {req.ms, req.ms + 1} : SubmitStep(TRUE, TRUE, ms)
    \/ SubmitRespond
    \/ NextSubmitError
SpecIntake == InitWith(Resubmits, MaxJobs, 0, MaxErrors) /\ [][NextIntake]_vars

\* updateEmailJobStatus on the rows of requests, its calls in any order.
NextJobStatus ==
    \/ Tick
    \/ Submit
    \/ \E ms \in {req.ms, req.ms + 1} : SubmitStep(TRUE, TRUE, ms)
    \/ SubmitRespond
    \/ \E j \in DOMAIN emailJob, status \in {"sent", "failed"} : ReportStatus(j, status)
SpecJobStatus == InitWith(MaxRequests, MaxJobs, 0, 0) /\ [][NextJobStatus]_vars

\* The rate limiter with its one caller.
\* checkRateLimit alone, on the hour window in full.
NextWindow == \E limit \in Limits : WindowCheck(limit)
SpecWindow == InitWindow /\ [][NextWindow]_vars

\* No error but that of a RateLimitCounter upsert.
NextMirrorError == NextOk \/ NextMirror
SpecMirror == InitWith(MaxRequests, MaxJobs, FewFailures, MaxErrors) /\ [][NextMirrorError]_vars

\* Two owners submit, rows are reported sent and failed, and anyone reads.
SubmitAs ==
    \E userId \in Readers, recipients \in RecipientLists, delayMs \in Delays :
        SubmitBegin(userId, recipients, T0, delayMs, 2)
NextReads ==
    \/ SubmitAs
    \/ \E ms \in {req.ms, req.ms + 1} : SubmitStep(TRUE, TRUE, ms)
    \/ SubmitRespond
    \/ \E j \in DOMAIN emailJob, status \in {"sent", "failed"} : ReportStatus(j, status)
    \/ \E userId \in Readers \cup {""} : ReadScheduled(userId)
    \/ \E userId \in Readers \cup {""} : ReadSent(userId)
    \/ \E userId \in Readers \cup {""}, scheduleId \in 1..nextId :
          ReadDetails(scheduleId, userId)
SpecReads == InitWith(Resubmits, MaxJobs, 0, 0) /\ [][NextReads]_vars

NextLimiter == ProbeCheck \/ ProbeIncrement \/ NextMirror
SpecLimiter == InitLimiter /\ [][NextLimiter]_vars

(* ------------------------------ claims -------------------------------- *)
\* The Mailer was called for the recipient of EmailJob row j.
Attempted(j) ==
    \E q \in DOMAIN queue :
        /\ queue[q].scheduleId = emailJob[j].scheduleId
        /\ queue[q].recipient = emailJob[j].recipient
        /\ queue[q].calls >= 1

\* The clock of the model is in its last hour and that hour's count has reached
\* the limit: a job still waiting needs an hour the model does not have.
Horizon ==
    /\ getHourWindow(now) = getHourWindow(TEnd)
    /\ ~canSend(currentCount(getHourWindow(TEnd)), MAX_EMAILS_PER_HOUR)

rowsOf(sid) == {j \in DOMAIN emailJob : emailJob[j].scheduleId = sid}
rowsFor(sid, rcpt) == {j \in rowsOf(sid) : emailJob[j].recipient = rcpt}
Recipients == {Addr("a"), Addr("b")}
Occurrences(recipients, rcpt) ==
    Cardinality({i \in 1..Len(recipients) : recipients[i] = rcpt})

\* C2: when scheduleEmails has answered 201, the Store holds the campaign row
\* and, for each accepted recipient, one EmailJob row of that campaign with
\* status pending (totalCount rows in all), whether or not enqueues failed.
C2_SubmitSuccessHoldsRows ==
    (req.pc = "responded" /\ req.status = 201) =>
        /\ req.sid \in DOMAIN emailSchedule
        /\ Cardinality(rowsOf(req.sid)) = emailSchedule[req.sid].totalCount
        /\ \A j \in rowsOf(req.sid) : emailJob[j].status = "pending"
        /\ \A rcpt \in Recipients :
              Cardinality(rowsFor(req.sid, rcpt)) = Occurrences(req.recipients, rcpt)

\* C2 witness: a 201 after an enqueue that failed and one that succeeded, the
\* enqueued job already processed to completion.
C2_Witness ==
    /\ req.pc = "responded" /\ req.status = 201
    /\ req.enqueueFailed >= 1 /\ req.createdJobs >= 1
    /\ \E q \in DOMAIN queue : queue[q].state = "completed"

\* C3: the Mailer is called at most attempts = 3 times for a queue job, whatever
\* the failures, retries, deferrals and errors.
C3_MailerCallsBounded == \A q \in DOMAIN queue : queue[q].calls <= attempts

\* C3 witness: a job that was deferred and then used up its attempts in Mailer calls.
C3_Witness ==
    \E q \in DOMAIN queue :
        queue[q].calls = attempts /\ queue[q].state = "failed" /\ queue[q].notBefore > 0

\* C4: a queue job that has completed has its recipient's EmailJob row at status
\* sent with sentTime set.
C4_CompletedJobRowSent ==
    \A q \in DOMAIN queue :
        queue[q].state = "completed" =>
            \E j \in rowsFor(queue[q].scheduleId, queue[q].recipient) :
                emailJob[j].status = "sent" /\ emailJob[j].sentTime # {}

\* Every row of the campaign is there and its queue job has its final outcome.
AllFinal(sid) ==
    /\ Cardinality(rowsOf(sid)) = emailSchedule[sid].totalCount
    /\ \A j \in rowsOf(sid) :
          \E q \in DOMAIN queue :
              /\ queue[q].scheduleId = sid
              /\ queue[q].recipient = emailJob[j].recipient
              /\ queue[q].state \in {"completed", "failed"}
    /\ \A q \in DOMAIN queue :
          queue[q].scheduleId = sid => queue[q].state \in {"completed", "failed"}

\* C5: a campaign whose jobs all have their final outcome, none of them still
\* being processed, has status completed and sentCount + failedCount = totalCount.
C5_FinishedCampaignCompleted ==
    \A sid \in DOMAIN emailSchedule :
        AllFinal(sid) =>
            /\ emailSchedule[sid].status = "completed"
            /\ emailSchedule[sid].sentCount + emailSchedule[sid].failedCount
                  = emailSchedule[sid].totalCount

\* C6: every campaign row has sentCount + failedCount <= totalCount and is
\* completed exactly when the sum equals totalCount.
C6_CountsWithinTotal ==
    \A sid \in DOMAIN emailSchedule :
        LET sch == emailSchedule[sid]
        IN  /\ sch.sentCount + sch.failedCount <= sch.totalCount
            /\ sch.status = "completed" <=>
                  sch.sentCount + sch.failedCount = sch.totalCount

\* C6 witness: updateScheduleCounts has written the row of a campaign whose jobs
\* all have their final outcome.
C6_Witness ==
    \E sid \in DOMAIN emailSchedule :
        emailSchedule[sid].status # "scheduled" /\ AllFinal(sid)

\* C7: no step lowers the stored sentCount or failedCount of a campaign.
C7_CountersMonotone ==
    [][\A sid \in DOMAIN emailSchedule :
          /\ emailSchedule'[sid].sentCount >= emailSchedule[sid].sentCount
          /\ emailSchedule'[sid].failedCount >= emailSchedule[sid].failedCount]_vars

\* C7 witness: two processors are inside updateScheduleCounts for the same
\* campaign, one of them on the retry of a job that failed, after the row was
\* written once.
C7_Witness ==
    \E q1, q2 \in DOMAIN queue :
        /\ q1 # q2
        /\ queue[q1].scheduleId = queue[q2].scheduleId
        /\ queue[q1].pc \in {"countSent", "countFailed", "write"}
        /\ queue[q2].pc \in {"countFailed", "write"}
        /\ queue[q1].attemptsMade >= 1
        /\ emailSchedule[queue[q1].scheduleId].status = "in-progress"

C9_LimitIsCampaignHourlyLimit ==
    \A q \in DOMAIN queue :
        queue[q].pc = "check" =>
            rateLimitArg(queue[q]) = emailSchedule[queue[q].scheduleId].hourlyLimit

\* C10: a run in which checkRateLimit denied the job makes no Mailer call, and
\* leaves the job delayed until nextWindowTime with its attempts untouched.
C10_DeniedJobWaitsForNextWindow ==
    \A q \in DOMAIN queue :
        queue[q].denied =>
            /\ queue[q].pc # "send"
            /\ queue[q].state = "delayed" => queue[q].due >= queue[q].notBefore

\* C11: once the process has been started again, every EmailJob row still at
\* status pending is eventually enqueued and has its Mailer call (up to the last
\* hour of the model's clock), also a row whose enqueue failed or never happened.
C11_PendingRowsRecovered ==
    <>[](budget.restarts < MaxRestarts =>
            \A j \in DOMAIN emailJob :
                emailJob[j].status = "pending" => Attempted(j) \/ Horizon)

\* C12: a queue job that completed on its second Mailer call, the first having
\* failed, has its recipient's EmailJob row at status sent with a sentTime not
\* before the retry, and a campaign of that one recipient counts it once in
\* sentCount and not in failedCount.
C12_RetriedJobCountedSent ==
    \A q \in DOMAIN queue :
        (queue[q].state = "completed" /\ queue[q].attemptsMade = 1 /\ queue[q].calls = 2) =>
            LET sch == emailSchedule[queue[q].scheduleId]
            IN  /\ \E j \in rowsFor(queue[q].scheduleId, queue[q].recipient) :
                      /\ emailJob[j].status = "sent"
                      /\ emailJob[j].sentTime # {}
                      /\ \A t \in emailJob[j].sentTime : t >= queue[q].due
                /\ sch.totalCount = 1 => sch.sentCount = 1 /\ sch.failedCount = 0

\* C13: a queue job whose Mailer call failed is failed after that one call, with
\* its recipient's EmailJob row at status failed: no retry, no further call.
C13_FailedCallNotRetried ==
    \A q \in DOMAIN queue :
        queue[q].attemptsMade >= 1 =>
            /\ queue[q].state = "failed"
            /\ queue[q].calls = 1
            /\ \E j \in rowsFor(queue[q].scheduleId, queue[q].recipient) :
                  emailJob[j].status = "failed"

\* A request without the owner header, and one with a field missing, a startTime
\* that does not parse or a recipient that does not match the email pattern.
OwnerAbsent(r) == r.userId = ""
BadBody(r) ==
    \/ r.subject = "" \/ r.body = "" \/ r.recipients = << >>
    \/ r.startTime \in {NoStartTime, InvalidDate}
    \/ \E i \in 1..Len(r.recipients) : ~emailRegex(trim(r.recipients[i]))

\* C14: scheduleEmails on a request without owner header answers 401, on one
\* with a bad body 400, and in both cases leaves the User, EmailSchedule and
\* EmailJob tables and the queue as they were.
C14_RejectedSubmitChangesNothing ==
    [][budget'.requests < budget.requests =>
          \A r \in Requests :
              (SubmitRequest(r) /\ (OwnerAbsent(r) \/ BadBody(r))) =>
                  /\ req'.status = IF OwnerAbsent(r) THEN 401 ELSE 400
                  /\ UNCHANGED <<user, emailSchedule, emailJob, queue, nextId>>]_vars

\* C14 witness: a request was rejected with 400 after an earlier one was accepted,
\* its rows created and its jobs enqueued.
C14_Witness ==
    /\ req.pc = "responded" /\ req.status = 400
    /\ user # {} /\ emailSchedule # << >> /\ emailJob # << >> /\ queue # << >>

\* String.prototype.toLowerCase on the letters used here.
toLowerCase(str) ==
    [i \in 1..Len(str) |-> CASE str[i] = "A" -> "a" [] str[i] = "B" -> "b" [] OTHER -> str[i]]

\* An address as the claim compares it: trimmed and in lower case.
Canonical(str) == toLowerCase(trim(str))

\* C15: no two EmailJob rows of a campaign have recipients that are equal once
\* trimmed and lower-cased, and the campaign's totalCount is the number of
\* distinct such recipients of the request (the row's recipients column holds
\* them as they were submitted, trimmed).
C15_RecipientsDeduplicated ==
    \A sid \in DOMAIN emailSchedule :
        LET sch == emailSchedule[sid]
        IN  /\ \A j1, j2 \in rowsOf(sid) :
                  j1 # j2 => Canonical(emailJob[j1].recipient) # Canonical(emailJob[j2].recipient)
            /\ sch.totalCount =
                  Cardinality({Canonical(sch.recipients[i]) : i \in 1..Len(sch.recipients)})

\* The place of EmailJob row j among the recipients of its campaign, from 0: ids
\* are handed out in order, the schedule row's first and then one per recipient.
RowIndex(j) == j - emailJob[j].scheduleId - 1

\* After the step every EmailJob row is the row of its recipient in input order
\* with scheduledTime = startTime + i * delayMs, and a job the step added to the
\* queue carries the scheduledTime of the row the step created and is due at
\* that time, or (clamped) at the time of the step if that is later.
ScheduledAsGiven(clamped) ==
    /\ \A j \in DOMAIN emailJob' :
          LET sch == emailSchedule'[emailJob'[j].scheduleId]
              i == j - emailJob'[j].scheduleId - 1
          IN  /\ emailJob'[j].recipient = sch.recipients[i + 1]
              /\ emailJob'[j].scheduledTime = sch.startTime + i * sch.delayMs
    /\ \A q \in DOMAIN queue' \ DOMAIN queue :
          \E j \in DOMAIN emailJob' \ DOMAIN emailJob :
              /\ queue'[q].recipient = emailJob'[j].recipient
              /\ queue'[q].scheduledTime = emailJob'[j].scheduledTime
              /\ queue'[q].due = IF clamped THEN Max(emailJob'[j].scheduledTime, now)
                                 ELSE emailJob'[j].scheduledTime

\* C16 as stated: the row of the i-th recipient has scheduledTime = startTime +
\* i * delayMs and its queue job is due at exactly that time.
C16_DueIsScheduledTime == [][ScheduledAsGiven(FALSE)]_vars

\* C16: the row of the i-th recipient has scheduledTime = startTime + i * delayMs;
\* its queue job carries that scheduledTime and is due at it, or at the time of
\* the enqueue when the scheduledTime is already past.
C16_DueIsScheduledTimeOrNow == [][ScheduledAsGiven(TRUE)]_vars

\* C16 witness: a second recipient's row lies one delayMs > 0 after startTime with
\* its job due then, and another job was enqueued after its scheduledTime.
C16_Witness ==
    /\ \E j \in DOMAIN emailJob :
          /\ RowIndex(j) = 1
          /\ emailJob[j].scheduledTime > emailSchedule[emailJob[j].scheduleId].startTime
          /\ \E q \in emailJob[j].jobId : queue[q].due = emailJob[j].scheduledTime
    /\ \E q \in DOMAIN queue : queue[q].due > queue[q].scheduledTime

\* C17: once scheduleEmails has answered, no campaign row has fewer EmailJob rows
\* than its totalCount, and after a 500 for a failed row write neither the
\* campaign row of the request nor any of its EmailJob rows is in the Store.
C17_CampaignAndRowsAtomic ==
    req.pc = "responded" =>
        /\ \A sid \in DOMAIN emailSchedule :
              Cardinality(rowsOf(sid)) >= emailSchedule[sid].totalCount
        /\ req.status = 500 => req.sid \notin DOMAIN emailSchedule /\ rowsOf(req.sid) = {}

\* Two campaign rows of the same submission: owner, recipients, startTime,
\* delayMs and hourlyLimit.
SameCampaign(s1, s2) ==
    /\ emailSchedule[s1].userId = emailSchedule[s2].userId
    /\ emailSchedule[s1].recipients = emailSchedule[s2].recipients
    /\ emailSchedule[s1].startTime = emailSchedule[s2].startTime
    /\ emailSchedule[s1].delayMs = emailSchedule[s2].delayMs
    /\ emailSchedule[s1].hourlyLimit = emailSchedule[s2].hourlyLimit

\* C18: a campaign submitted again, both times with every row written, is
\* answered with the original campaign: the Store holds one campaign row for it,
\* and no EmailJob rows or queue jobs beyond those of that row.
C18_ResubmitIsIdempotent ==
    \A s1, s2 \in DOMAIN emailSchedule :
        (/\ SameCampaign(s1, s2)
         /\ Cardinality(rowsOf(s1)) >= emailSchedule[s1].totalCount
         /\ Cardinality(rowsOf(s2)) >= emailSchedule[s2].totalCount) =>
            /\ s1 = s2
            /\ Cardinality(rowsOf(s1)) <= emailSchedule[s1].totalCount
            /\ Cardinality({q \in DOMAIN queue : queue[q].scheduleId = s1})
                  <= emailSchedule[s1].totalCount

\* C19: checkRateLimit, incrementRateLimit, checkRateLimit for one sender in one
\* hour with nobody else incrementing: the second currentCount is the first + 1,
\* whatever the Redis key and the Store row were at the start.
C19_SecondCheckIsFirstPlusOne ==
    probe.pc = "done" => probe.second = probe.first + 1

\* C20: no Mailer call for a job is made before the job's scheduledTime, nor
\* before the startTime of its campaign, be the startTime past or ahead when the
\* request arrives.
C20_NoMailerCallBeforeScheduledTime ==
    [][\A q \in DOMAIN queue :
          queue'[q].calls > queue[q].calls =>
              /\ now >= queue[q].scheduledTime
              /\ now >= emailSchedule[queue[q].scheduleId].startTime]_vars

\* C20 witness: the Mailer was called for one job of a campaign while another
\* job of it is held back, its scheduledTime still ahead.
C20_Witness ==
    \E q1, q2 \in DOMAIN queue :
        /\ queue[q1].scheduleId = queue[q2].scheduleId
        /\ queue[q1].calls >= 1
        /\ queue[q2].scheduledTime > now
        /\ queue[q2].state = "delayed" /\ queue[q2].calls = 0

\* The place of a campaign status on the way scheduled, in-progress, completed.
StatusRank(status) ==
    CASE status = "scheduled" -> 0 [] status = "in-progress" -> 1 [] status = "completed" -> 2

\* C21: no step moves the status of a campaign backwards on the way scheduled,
\* in-progress, completed, also with several processors inside
\* updateScheduleCounts for the same campaign.
C21_StatusMovesForward ==
    [][\A sid \in DOMAIN emailSchedule :
          StatusRank(emailSchedule'[sid].status) >= StatusRank(emailSchedule[sid].status)]_vars

\* C21 witness: the row of a campaign has been written, and two processors are
\* about to write it again with the counts each of them read.
C21_Witness ==
    \E q1, q2 \in DOMAIN queue :
        /\ q1 # q2
        /\ queue[q1].scheduleId = queue[q2].scheduleId
        /\ queue[q1].pc = "write" /\ queue[q2].pc = "write"
        /\ emailSchedule[queue[q1].scheduleId].status = "in-progress"

\* C22: a campaign has status scheduled exactly when all of its EmailJob rows are
\* at status pending (a row that left pending never returns to it).
C22_ScheduledIffAllPending ==
    \A sid \in DOMAIN emailSchedule :
        emailSchedule[sid].status = "scheduled" <=>
            \A j \in rowsOf(sid) : emailJob[j].status = "pending"

JobOf(j) == emailJob[j].jobId \cap DOMAIN queue

\* The run the job is in, or was in last, is its attempts-th.
LastAttempt(job) ==
    \/ job.state = "failed"
    \/ job.state = "active" /\ job.attemptsMade = attempts - 1

Created(sch) == [sch EXCEPT !.sentCount = 0, !.failedCount = 0, !.status = "scheduled"]

\* C26: no step changes the scheduledTime, recipient or campaign of an EmailJob
\* row, or any field of a campaign row but sentCount, failedCount and status, and
\* those three change only in the write of updateScheduleCounts for that campaign.
C26_OnlyCountsAndStatusChange ==
    [][/\ \A j \in DOMAIN emailJob :
             /\ j \in DOMAIN emailJob'
             /\ emailJob'[j].scheduledTime = emailJob[j].scheduledTime
             /\ emailJob'[j].recipient = emailJob[j].recipient
             /\ emailJob'[j].scheduleId = emailJob[j].scheduleId
       /\ \A sid \in DOMAIN emailSchedule :
             /\ sid \in DOMAIN emailSchedule'
             /\ Created(emailSchedule'[sid]) = Created(emailSchedule[sid])
             /\ emailSchedule'[sid] # emailSchedule[sid] =>
                   \E q \in DOMAIN queue :
                       /\ queue[q].pc = "write" /\ queue[q].scheduleId = sid
                       /\ queue'[q].pc = "none"]_vars

\* C26 witness: updateScheduleCounts has written a campaign row, one of whose jobs
\* was deferred by the rate limiter and one of whose jobs is on a retry.
C26_Witness ==
    \E sid \in DOMAIN emailSchedule :
        /\ emailSchedule[sid].status = "in-progress"
        /\ \E q \in DOMAIN queue : queue[q].scheduleId = sid /\ queue[q].notBefore > 0
        /\ \E q \in DOMAIN queue : queue[q].scheduleId = sid /\ queue[q].attemptsMade >= 1

\* The jobs whose Mailer call is outstanding.
InFlight == {q \in DOMAIN queue : queue[q].pc = "send"}

\* C27: at most WORKER_CONCURRENCY jobs are being processed at any instant, and
\* so at most that many Mailer calls are outstanding.
C27_ActiveWithinConcurrency ==
    /\ Cardinality(Active) <= WORKER_CONCURRENCY
    /\ InFlight \subseteq Active
    /\ Cardinality(InFlight) <= WORKER_CONCURRENCY

\* C27 witness: WORKER_CONCURRENCY Mailer calls are outstanding while a further
\* job is due and waits.
C27_Witness ==
    /\ Cardinality(InFlight) = WORKER_CONCURRENCY
    /\ \E q \in DOMAIN queue : queue[q].state = "delayed" /\ queue[q].due <= now

\* The Mailer calls made for the jobs in S, and the counts of the hours in H.
RECURSIVE MailerCalls(_)
MailerCalls(S) ==
    IF S = {} THEN 0
    ELSE LET q == CHOOSE x \in S : TRUE IN queue[q].calls + MailerCalls(S \ {q})
RECURSIVE Incremented(_)
Incremented(H) ==
    IF H = {} THEN 0
    ELSE LET h == CHOOSE x \in H : TRUE IN kv[h] + Incremented(H \ {h})

\* C28: every Mailer call comes after the incrementRateLimit of its run: the
\* Mailer calls made, failed ones included, never outnumber the increments, and
\* no run increments after its Mailer call.
C28_IncrementBeforeMailer ==
    /\ MailerCalls(DOMAIN queue) <= Incremented(DOMAIN kv)
    /\ \A q \in DOMAIN queue : queue[q].pc # "incr"

\* C29: within an hour, no step lowers the count checkRateLimit reads or the
\* count of the RateLimitCounter row.
C29_CountNeverDecreases ==
    [][\A h \in HourIdx :
          /\ currentCount(h)' >= currentCount(h)
          /\ h \in DOMAIN mirror =>
                h \in DOMAIN mirror' /\ mirror'[h] >= mirror[h]]_vars

\* The instants of the UTC hour of date that the model has.
SameHour(date) ==
    {t \in {date - (date % MinutesPerHour) + k : k \in {0, 1, MinutesPerHour - 1}} :
        t \div MinutesPerHour = date \div MinutesPerHour}

\* The count held for the UTC hour of date by a counter table keyed as
\* incrementRateLimit keys it, if it holds one.
HeldFor(table, date) ==
    {table[getHourWindowString(t)] :
        t \in {u \in SameHour(date) : getHourWindowString(u) \in DOMAIN table}}

\* C30: checkRateLimit returns as currentCount the Redis count of the UTC hour it
\* is now, else the RateLimitCounter count of that hour, else 0; canSend exactly
\* when currentCount < limit; and as nextWindowTime the start of the next UTC hour,
\* after now and at most an hour after it.
C30_CheckRateLimitResult ==
    probe.pc = "checked" =>
        LET r == probe.result
            held == IF HeldFor(kv, now) # {} THEN HeldFor(kv, now) ELSE HeldFor(mirror, now)
        IN  /\ IF held = {} THEN r.currentCount = 0 ELSE held = {r.currentCount}
            /\ r.canSend <=> r.currentCount < r.limit
            /\ r.nextWindowTime = (now \div MinutesPerHour + 1) * MinutesPerHour
            /\ r.nextWindowTime > now
            /\ r.nextWindowTime <= now + MinutesPerHour

\* C30 witness: checkRateLimit called in the last minute of a year, the Redis key
\* absent, a row for the hour and one counter of the hour before: the count is the
\* row's, it denies, and the next window is in the next year.
C30_Witness ==
    /\ probe.pc = "checked"
    /\ now % MinutesPerHour = MinutesPerHour - 1
    /\ getUTCFullYear(probe.result.nextWindowTime) = getUTCFullYear(now) + 1
    /\ getHourWindowString(now) \notin DOMAIN kv /\ kv # << >>
    /\ getHourWindowString(now) \in DOMAIN mirror
    /\ probe.result.currentCount = mirror[getHourWindowString(now)]
    /\ ~probe.result.canSend

\* C31: when a RateLimitCounter upsert has failed and every job has completed,
\* the Redis counters hold one increment for each job and every job's row is sent.
C31_UpsertFailureStillSent ==
    (/\ budget.errors < MaxErrors
     /\ DOMAIN queue # {}
     /\ \A q \in DOMAIN queue : queue[q].state = "completed") =>
        /\ Incremented(DOMAIN kv) = Cardinality(DOMAIN queue)
        /\ \A j \in DOMAIN emailJob : JobOf(j) # {} => emailJob[j].status = "sent"

\* C32: with the Store unavailable the Mailer is not called for any job.
C32_NoMailerCallWithoutStore == \A q \in DOMAIN queue : queue[q].calls = 0

\* C33: the first Mailer calls of consecutive recipients of a campaign lie at
\* least delayMs apart.  No call is made before T0, so when both have been made
\* the clock has reached T0 + delayMs.
C33_ConsecutiveCallsSpaced ==
    \A q1, q2 \in DOMAIN queue :
        LET delayMs == emailSchedule[queue[q1].scheduleId].delayMs
        IN  (/\ queue[q1].scheduleId = queue[q2].scheduleId
             /\ delayMs > 0
             /\ queue[q2].scheduledTime = queue[q1].scheduledTime + delayMs
             /\ queue[q1].calls >= 1 /\ queue[q2].calls >= 1) =>
                now >= T0 + delayMs

\* C34: when the Mailer is first called for a job of a campaign, it has already
\* been called for every job of the campaign with an earlier scheduledTime that
\* is being processed in its first run and was not deferred by the rate limiter.
C34_FirstCallsInScheduledOrder ==
    [][\A qi, qj \in DOMAIN queue :
          (/\ queue[qi].scheduleId = queue[qj].scheduleId
           /\ queue[qi].scheduledTime < queue[qj].scheduledTime
           /\ queue[qi].state = "active" /\ queue[qi].attemptsMade = 0
           /\ queue[qi].notBefore = 0
           /\ queue[qj].calls = 0 /\ queue'[qj].calls = 1) =>
              queue[qi].calls >= 1]_vars

\* The Mailer calls that returned success in the hours H.
RECURSIVE Delivered(_)
Delivered(H) ==
    IF H = {} THEN 0
    ELSE LET h == CHOOSE x \in H : TRUE IN sends[h] + Delivered(H \ {h})

\* C35: the Mailer is not called for a job again after it has returned success
\* for it: the calls that returned success number at most the queue jobs.
C35_NoCallAfterSuccess == Delivered(HourIdx) <= Cardinality(DOMAIN queue)

\* C36: two EmailJob rows that were enqueued have different queue job ids, and a
\* request answered 201 has a queue job for each job it reports as created.
C36_RowsHaveOwnQueueJobs ==
    /\ \A j1, j2 \in DOMAIN emailJob :
          (j1 # j2 /\ emailJob[j1].jobId # {}) => emailJob[j1].jobId # emailJob[j2].jobId
    /\ (req.pc = "responded" /\ req.status = 201) =>
          Cardinality({q \in DOMAIN queue : queue[q].scheduleId = req.sid}) = req.createdJobs

\* C37: no Mailer call is made for a job of a campaign whose status is completed,
\* and no job of such a campaign waits or is being processed.
C37_NoCallAfterCompleted ==
    [][\A q \in DOMAIN queue :
          emailSchedule[queue[q].scheduleId].status = "completed" =>
              /\ queue'[q].calls = queue[q].calls
              /\ queue[q].state \in {"completed", "failed"}]_vars

\* The case of C37: a campaign is completed.
C37_Completed ==
    \E sid \in DOMAIN emailSchedule : emailSchedule[sid].status = "completed"

\* C38: the increment after a send raises by one the counter of the hour window
\* that the run's checkRateLimit read.
C38_IncrementsCheckedBucket ==
    [][\A q \in DOMAIN queue :
          (queue[q].pc = "incr" /\ queue'[q].pc = "countSent") =>
              /\ queue[q].hw \in DOMAIN kv'
              /\ kv'[queue[q].hw] =
                    (IF queue[q].hw \in DOMAIN kv THEN kv[queue[q].hw] ELSE 0) + 1]_vars

\* The schedules and rows that a step creates or changes belong to owner.
StepOf(owner) ==
    /\ \A sid \in DOMAIN emailSchedule' :
          (sid \notin DOMAIN emailSchedule \/ emailSchedule'[sid] # emailSchedule[sid]) =>
              emailSchedule'[sid].userId = owner
    /\ \A j \in DOMAIN emailJob' :
          (j \notin DOMAIN emailJob \/ emailJob'[j] # emailJob[j]) =>
              emailJob'[j].userId = owner

\* What the three reads return to owner.
ReadsOf(owner) ==
    <<getScheduledEmails(owner), getSentEmails(owner),
      [sid \in DOMAIN emailSchedule |-> getScheduleDetails(sid, owner)]>>

\* Every schedule and row of a response belongs to the reader, and the details
\* of another owner's schedule are answered 404.
OwnResponse ==
    probe.pc \in {"scheduled", "sent", "details"} =>
        /\ probe.pc = "scheduled" =>
              \A s \in probe.res.body : emailSchedule[s.id].userId = probe.userId
        /\ probe.pc = "sent" =>
              \A e \in probe.res.body : emailJob[e.id].userId = probe.userId
        /\ probe.pc = "details" =>
              /\ \A s \in probe.res.body :
                    /\ emailSchedule[s.id].userId = probe.userId
                    /\ \A e \in s.emails : emailJob[e.id].userId = probe.userId
              /\ (/\ probe.scheduleId \in DOMAIN emailSchedule
                  /\ emailSchedule[probe.scheduleId].userId # probe.userId) =>
                    probe.res.status \in {401, 404}

\* C39: what a read returns to an owner holds only that owner's schedules and
\* rows, another owner's schedule is answered not-found, and no step of another
\* owner changes what the reads return to this one.
C39_ReadsIsolatedPerOwner ==
    [][/\ OwnResponse'
       /\ \A a, b \in Readers :
             (a # b /\ StepOf(b)) =>
                 /\ getScheduledEmails(a)' = getScheduledEmails(a)
                 /\ getSentEmails(a)' = getSentEmails(a)
                 /\ \A sid \in DOMAIN emailSchedule :
                       getScheduleDetails(sid, a)' = getScheduleDetails(sid, a)
                 /\ \A sid \in DOMAIN emailSchedule' \ DOMAIN emailSchedule :
                       getScheduleDetails(sid, a)'.status = 404]_vars

\* C39 witness: u1 asks for the details of a schedule of u2 that has a row sent
\* and is answered 404, u1 having a schedule and a failed row of its own.
C39_Witness ==
    /\ probe.pc = "details" /\ probe.userId = "u1" /\ probe.res.status = 404
    /\ probe.scheduleId \in DOMAIN emailSchedule
    /\ emailSchedule[probe.scheduleId].userId = "u2"
    /\ \E j \in DOMAIN emailJob :
          emailJob[j].scheduleId = probe.scheduleId /\ emailJob[j].status = "sent"
    /\ \E j \in DOMAIN emailJob : emailJob[j].userId = "u1" /\ emailJob[j].status = "failed"

=============================================================================
